---- MODULE Spec2Model ----
(***************************************************************************)
(* logutil: time-suffixed rotating loggers and the buffered               *)
(* _MemoryHandler with its background flush workers                       *)
(* (src/logutil/__init__.py).                                             *)
(*                                                                         *)
(* The specifications share the handler machinery:                        *)
(*   SinkSpec  one client thread driving a stand-alone _MemoryHandler:    *)
(*             handle()* then close(), with the background workers and    *)
(*             the clock running concurrently (LiveSinkSpec: the same     *)
(*             with fair scheduling of the client and of worker start);   *)
(*   BatchSpec the same handler fed with up to MaxBatch records below     *)
(*             flushLevel while the clock stands still, then closed;      *)
(*   CallSpec  BatchSpec with explicit flush() calls of the client;       *)
(*   RotSpec   a TimedRotatingLogger (direct file handlers) shared by     *)
(*             the threads of Threads: handle(), rotation, clock;         *)
(*   MemSpec   a TimedRotatingMemoryLogger (buffered handlers) shared by  *)
(*             the threads of Threads: handle(), flush(), rotation,       *)
(*             workers, clock.                                            *)
(***************************************************************************)
EXTENDS Integers, Sequences, FiniteSets, TLC

\* logging levels of the records (logging.INFO, logging.ERROR)
INFO == 20
ERROR == 40
Levels == {INFO, ERROR}

\* configuration of the buffered handler
Capacity == 2
FlushInterval == 1
FlushLevel == ERROR

\* bounds of the model
MaxFails == 1
MaxRecords == 2
MaxTime == FlushInterval + 1
MaxBatch == 3
MaxFlushes == 1

\* the rendezvous timeout of flush: self.__condition.wait(1.0)
WaitTimeout == 1

Threads == {1, 2}
Client == 1

VARIABLES
    now,        \* the system clock read by time.time() and time.strftime()
    levelOf,    \* levelOf[r]: level of record r; records are numbered in handle order
    lists,      \* heap of Python list objects: lists[i] is the content of list i
    sinks,      \* heap of handler objects (FileHandler and _MemoryHandler)
    workers,    \* the 'flusher' threads created by _MemoryHandler.flush
    files,      \* files[p]: the records written to the file of path suffix p
    th,         \* per thread: position and locals
    fails,      \* number of failures so far of Thread.start(), make_handler, target.handle
    logger,     \* the TimedRotatingMemoryLogger: _suffix, handlers, _rLock
    trace       \* per record: the suffix when handle() began and what became of it

vars == <<now, levelOf, lists, sinks, workers, files, th, fails, logger, trace>>

Paths == 0..MaxTime

\* time.strftime(suffixFmt): one suffix period lasts one clock unit
strftime(t) == t

----------------------------------------------------------------------------
\* Handler objects

FileSink(p) ==
    [kind |-> "file", path |-> p, open |-> TRUE, closed |-> FALSE, buffer |-> 0,
     target |-> 0, flusher |-> 0, last |-> 0, hlock |-> 0, cond |-> 0]

\* _MemoryHandler.__init__: the target is sink tg, the buffer is list b
MemSink(p, tg, b, t) ==
    [kind |-> "mem", path |-> p, open |-> TRUE, closed |-> FALSE, buffer |-> b,
     target |-> tg, flusher |-> 0, last |-> t, hlock |-> 0, cond |-> 0]

IdleThread ==
    [pc |-> "idle", rec |-> 0, sink |-> 0, bufRef |-> 0, buffered |-> 0, tgt |-> 0,
     notified |-> FALSE, t0 |-> 0, ret |-> <<>>,
     slow |-> FALSE, flushed |-> FALSE, pre |-> <<>>]

\* return from a call: continue at the caller's saved position; the locals
\* of the finished call are gone
Return(t) ==
    [th[t] EXCEPT !.pc = Head(th[t].ret), !.ret = Tail(th[t].ret),
                  !.bufRef = 0, !.buffered = 0, !.tgt = 0, !.notified = FALSE, !.t0 = 0]

\* call flush() on the thread's sink and continue at position k afterwards
CallFlush(t, k) == [th[t] EXCEPT !.pc = "f_enter", !.ret = <<k>> \o th[t].ret]

Alive(w) == workers[w].pc \in {"start", "write"}

\* FileHandler.emit: (re)opens the stream when needed and writes the record
EmitFile(s, r) ==
    /\ files' = [files EXCEPT ![sinks[s].path] = Append(@, r)]
    /\ sinks' = [sinks EXCEPT ![s].open = TRUE]

\* shouldFlush with one of its three triggers left out
shouldFlushNoLevel(s, r) ==
    \/ Len(lists[sinks[s].buffer]) >= Capacity
    \/ now - sinks[s].last > FlushInterval

shouldFlushNoCapacity(s, r) ==
    \/ now - sinks[s].last > FlushInterval
    \/ levelOf[r] >= FlushLevel

shouldFlushNoInterval(s, r) ==
    \/ Len(lists[sinks[s].buffer]) >= Capacity
    \/ levelOf[r] >= FlushLevel

\* _MemoryHandler.shouldFlush for sink s and record r at the current time
shouldFlush(s, r) ==
    \/ Len(lists[sinks[s].buffer]) >= Capacity
    \/ now - sinks[s].last > FlushInterval
    \/ levelOf[r] >= FlushLevel

----------------------------------------------------------------------------
\* Handler.handle on the thread's sink

\* Handler.handle: acquire the handler lock; a FileHandler emits at once,
\* a _MemoryHandler's emit loads self.buffer
SinkAcquire(t) ==
    /\ th[t].pc = "s_acq"
    /\ LET s == th[t].sink IN
       IF sinks[s].kind = "file"
       THEN /\ EmitFile(s, th[t].rec)
            /\ th' = [th EXCEPT ![t] = Return(t)]
            /\ UNCHANGED <<now, levelOf, lists, workers, fails, logger, trace>>
       ELSE /\ sinks[s].hlock = 0
            /\ sinks' = [sinks EXCEPT ![s].hlock = t]
            /\ th' = [th EXCEPT ![t].pc = "s_append", ![t].bufRef = sinks[s].buffer,
                                ![t].pre = lists[sinks[s].buffer]]
            /\ UNCHANGED <<now, levelOf, lists, workers, files, fails, logger, trace>>

\* BufferingHandler.emit: self.buffer.append(record)
SinkAppend(t) ==
    /\ th[t].pc = "s_append"
    /\ lists' = [lists EXCEPT ![th[t].bufRef] = Append(@, th[t].rec)]
    /\ th' = [th EXCEPT ![t].pc = "s_should"]
    /\ UNCHANGED <<now, levelOf, sinks, workers, files, fails, logger, trace>>

\* BufferingHandler.emit: if self.shouldFlush(record): self.flush()
SinkShould(t) ==
    /\ th[t].pc = "s_should"
    /\ th' = [th EXCEPT ![t] =
                IF shouldFlush(th[t].sink, th[t].rec)
                THEN [CallFlush(t, "s_rel") EXCEPT !.flushed = TRUE]
                ELSE [th[t] EXCEPT !.pc = "s_rel"]]
    /\ UNCHANGED <<now, levelOf, lists, sinks, workers, files, fails, logger, trace>>

\* Handler.handle: release the handler lock and return
SinkRelease(t) ==
    /\ th[t].pc = "s_rel"
    /\ sinks' = [sinks EXCEPT ![th[t].sink].hlock = 0]
    /\ th' = [th EXCEPT ![t] = [Return(t) EXCEPT !.pre = <<>>]]
    /\ UNCHANGED <<now, levelOf, lists, workers, files, fails, logger, trace>>

----------------------------------------------------------------------------
\* _MemoryHandler.flush and its worker

\* with self.__condition: target, buffered, self.buffer = self.target, self.buffer, []
FlushEnter(t) ==
    /\ th[t].pc = "f_enter"
    /\ LET s == th[t].sink IN
       IF sinks[s].kind = "file"
       THEN /\ th' = [th EXCEPT ![t] = Return(t)]
            /\ UNCHANGED <<lists, sinks>>
       ELSE /\ sinks[s].cond = 0
            /\ lists' = Append(lists, <<>>)
            /\ sinks' = [sinks EXCEPT ![s].cond = t, ![s].buffer = Len(lists) + 1]
            /\ th' = [th EXCEPT ![t].pc = "f_start", ![t].buffered = sinks[s].buffer,
                                ![t].tgt = sinks[s].target]
    /\ UNCHANGED <<now, levelOf, workers, files, fails, logger, trace>>

\* the worker thread object made by flush for sink s
NewWorker(s, tg, b, p) == [sink |-> s, target |-> tg, batch |-> b, idx |-> 1, pc |-> p]

\* a thread whose start() raised and which runs all the same
FailedStartRuns == "start"

\* the state of a thread object whose start() raised: it never runs
FailedStart == "unstarted"

\* a wait that keeps the condition
CondKeptInWait(t) == t

\* the holder of the condition while thread t is in self.__condition.wait(1.0):
\* wait releases it
CondInWait(t) == 0

\* self.__flusher = Thread(...); start(); wait(1.0) releases the condition.
\* When start() raises, the except clause restores the buffer.
FlushStart(t) ==
    /\ th[t].pc = "f_start"
    /\ LET s == th[t].sink IN
       \/ /\ workers' = Append(workers, NewWorker(s, th[t].tgt, th[t].buffered, "start"))
          /\ sinks' = [sinks EXCEPT ![s].cond = CondInWait(t), ![s].flusher = Len(workers) + 1]
          /\ th' = [th EXCEPT ![t].pc = "f_waiting", ![t].notified = FALSE, ![t].t0 = now]
          /\ UNCHANGED fails
       \/ /\ fails < MaxFails
          /\ fails' = fails + 1
          /\ workers' = Append(workers, NewWorker(s, th[t].tgt, th[t].buffered, FailedStart))
          /\ sinks' = [sinks EXCEPT ![s].cond = 0, ![s].flusher = Len(workers) + 1,
                                    ![s].buffer = th[t].buffered]
          /\ th' = [th EXCEPT ![t] = Return(t)]
    /\ UNCHANGED <<now, levelOf, lists, files, logger, trace>>

\* a wait that lasts until the worker started by this flush has ended
WaitForWriter(t) ==
    LET f == sinks[th[t].sink].flusher IN f # 0 /\ ~Alive(f)

\* self.__condition.wait(1.0) ends when the worker has notified or the
\* timeout has expired
Rendezvous(t) == th[t].notified \/ now - th[t].t0 >= WaitTimeout

\* self.__condition.wait(1.0) returns, notified or timed out, once it has
\* reacquired the condition; the with block then releases it
FlushWake(t) ==
    /\ th[t].pc = "f_waiting"
    /\ Rendezvous(t)
    /\ sinks[th[t].sink].cond = 0
    /\ th' = [th EXCEPT ![t] = Return(t)]
    /\ UNCHANGED <<now, levelOf, lists, sinks, workers, files, fails, logger, trace>>

\* __flush: with self.__condition: self.__condition.notifyAll()
WorkerStart(w) ==
    /\ workers[w].pc = "start"
    /\ sinks[workers[w].sink].cond = 0
    /\ workers' = [workers EXCEPT ![w].pc = "write"]
    /\ th' = [t \in Threads |->
                IF th[t].pc = "f_waiting" /\ th[t].sink = workers[w].sink
                THEN [th[t] EXCEPT !.notified = TRUE] ELSE th[t]]
    /\ UNCHANGED <<now, levelOf, lists, sinks, files, fails, logger, trace>>

\* __flush: one iteration of  for record in buffered: target.handle(record);
\* the loop has no except clause: when the call raises (always with target
\* None, else when the target's handle fails) the worker thread ends
WorkerWrite(w) ==
    /\ workers[w].pc = "write"
    /\ workers[w].idx <= Len(lists[workers[w].batch])
    /\ \/ /\ workers[w].target # 0
          /\ EmitFile(workers[w].target, lists[workers[w].batch][workers[w].idx])
          /\ workers' = [workers EXCEPT ![w].idx = @ + 1]
          /\ UNCHANGED fails
       \/ /\ workers[w].target = 0 \/ fails < MaxFails
          /\ fails' = IF workers[w].target = 0 THEN fails ELSE fails + 1
          /\ workers' = [workers EXCEPT ![w].pc = "dead"]
          /\ UNCHANGED <<files, sinks>>
    /\ UNCHANGED <<now, levelOf, lists, th, logger, trace>>

\* __flush: the loop is exhausted; self.__lastFlushTime = time.time()
WorkerEnd(w) ==
    /\ workers[w].pc = "write"
    /\ workers[w].idx > Len(lists[workers[w].batch])
    /\ workers' = [workers EXCEPT ![w].pc = "done"]
    /\ sinks' = [sinks EXCEPT ![workers[w].sink].last = now]
    /\ UNCHANGED <<now, levelOf, lists, files, th, fails, logger, trace>>

----------------------------------------------------------------------------
\* close() of the thread's sink

\* FileHandler.close closes the stream; _MemoryHandler.close starts with self.flush()
CloseEnter(t) ==
    /\ th[t].pc = "c_enter"
    /\ LET s == th[t].sink IN
       IF sinks[s].kind = "file"
       THEN /\ sinks' = [sinks EXCEPT ![s].open = FALSE, ![s].closed = TRUE]
            /\ th' = [th EXCEPT ![t] = Return(t)]
       ELSE /\ th' = [th EXCEPT ![t] = CallFlush(t, "c_join")]
            /\ UNCHANGED sinks
    /\ UNCHANGED <<now, levelOf, lists, workers, files, fails, logger, trace>>

\* if self.__flusher and self.__flusher.is_alive(): self.__flusher.join()
\* then MemoryHandler.close: self.flush()
CloseJoin(t) ==
    /\ th[t].pc = "c_join"
    /\ LET f == sinks[th[t].sink].flusher IN f = 0 \/ ~Alive(f)
    /\ th' = [th EXCEPT ![t] = CallFlush(t, "c_target")]
    /\ UNCHANGED <<now, levelOf, lists, sinks, workers, files, fails, logger, trace>>

\* MemoryHandler.close: self.acquire(); self.target = None; then
\* BufferingHandler.close: self.flush()
CloseTarget(t) ==
    /\ th[t].pc = "c_target"
    /\ sinks[th[t].sink].hlock = 0
    /\ sinks' = [sinks EXCEPT ![th[t].sink].hlock = t, ![th[t].sink].target = 0]
    /\ th' = [th EXCEPT ![t] = CallFlush(t, "c_end")]
    /\ UNCHANGED <<now, levelOf, lists, workers, files, fails, logger, trace>>

\* Handler.close and self.release(): close() returns
CloseEnd(t) ==
    /\ th[t].pc = "c_end"
    /\ sinks' = [sinks EXCEPT ![th[t].sink].hlock = 0, ![th[t].sink].closed = TRUE]
    /\ th' = [th EXCEPT ![t] = Return(t)]
    /\ UNCHANGED <<now, levelOf, lists, workers, files, fails, logger, trace>>

----------------------------------------------------------------------------
\* The clock

Tick ==
    /\ now < MaxTime
    /\ now' = now + 1
    /\ UNCHANGED <<levelOf, lists, sinks, workers, files, th, fails, logger, trace>>

----------------------------------------------------------------------------
\* SinkSpec: one client of a stand-alone _MemoryHandler (sink 2, target sink 1)

NoLogger ==
    [suffix |-> 0, suffix0 |-> 0, capacity |-> 1, handlers |-> <<>>, rlock |-> 0,
     noSink |-> FALSE, rotations |-> [p \in Paths |-> 0], flushes |-> 0]

TheSink == 2

InitSink ==
    /\ now = 0
    /\ levelOf = <<>>
    /\ lists = << <<>> >>
    /\ sinks = <<FileSink(0), MemSink(0, 1, 1, 0)>>
    /\ workers = <<>>
    /\ files = [p \in Paths |-> <<>>]
    /\ th = [t \in Threads |-> IdleThread]
    /\ fails = 0
    /\ logger = NoLogger
    /\ trace = <<>>

\* the client calls handler.handle(record)
ClientHandle ==
    /\ th[Client].pc = "idle"
    /\ Len(levelOf) < MaxRecords
    /\ \E lv \in Levels :
         /\ levelOf' = Append(levelOf, lv)
         /\ th' = [th EXCEPT ![Client] =
                     [IdleThread EXCEPT !.pc = "s_acq", !.rec = Len(levelOf) + 1,
                                        !.sink = TheSink, !.ret = <<"idle">>]]
    /\ UNCHANGED <<now, lists, sinks, workers, files, fails, logger, trace>>

\* the client calls handler.close() and uses the handler no more
ClientClose ==
    /\ th[Client].pc = "idle"
    /\ th' = [th EXCEPT ![Client] =
                [th[Client] EXCEPT !.pc = "c_enter", !.sink = TheSink, !.ret = <<"closed">>]]
    /\ UNCHANGED <<now, levelOf, lists, sinks, workers, files, fails, logger, trace>>

SinkStep(t) ==
    \/ SinkAcquire(t)
    \/ SinkAppend(t)
    \/ SinkShould(t)
    \/ SinkRelease(t)

FlushStep(t) ==
    \/ FlushEnter(t)
    \/ FlushStart(t)
    \/ FlushWake(t)

CloseStep(t) ==
    \/ CloseEnter(t)
    \/ CloseJoin(t)
    \/ CloseTarget(t)
    \/ CloseEnd(t)

WorkerStep(w) ==
    \/ WorkerStart(w)
    \/ WorkerWrite(w)
    \/ WorkerEnd(w)

NextSink ==
    \/ ClientHandle
    \/ ClientClose
    \/ SinkStep(Client)
    \/ FlushStep(Client)
    \/ CloseStep(Client)
    \/ \E w \in DOMAIN workers : WorkerStep(w)
    \/ Tick

SinkSpec == InitSink /\ [][NextSink]_vars

\* SinkSpec with the scheduling of the client thread and of the start of the
\* worker threads (their notifyAll) fair; nothing is assumed of the clock or
\* of the workers' writes to the target
LiveSinkSpec ==
    /\ SinkSpec
    /\ WF_vars(SinkStep(Client))
    /\ WF_vars(FlushStep(Client))
    /\ WF_vars(\E w \in DOMAIN workers : WorkerStart(w))

----------------------------------------------------------------------------
\* BatchSpec: the client handles records below flushLevel within one clock
\* unit (neither the severity nor the staleness trigger can fire), then closes

\* the client calls handler.handle(record) with a record of level INFO
ClientHandleInfo ==
    /\ th[Client].pc = "idle"
    /\ Len(levelOf) < MaxBatch
    /\ levelOf' = Append(levelOf, INFO)
    /\ th' = [th EXCEPT ![Client] =
                [IdleThread EXCEPT !.pc = "s_acq", !.rec = Len(levelOf) + 1,
                                   !.sink = TheSink, !.ret = <<"idle">>]]
    /\ UNCHANGED <<now, lists, sinks, workers, files, fails, logger, trace>>

NextBatch ==
    \/ ClientHandleInfo
    \/ ClientClose
    \/ SinkStep(Client)
    \/ FlushStep(Client)
    \/ CloseStep(Client)
    \/ \E w \in DOMAIN workers : WorkerStep(w)

BatchSpec == InitSink /\ [][NextBatch]_vars

\* CallSpec: BatchSpec with explicit calls of handler.flush() by the client

\* the client calls handler.flush()
ClientFlush ==
    /\ th[Client].pc = "idle"
    /\ logger.flushes < MaxFlushes
    /\ logger' = [logger EXCEPT !.flushes = @ + 1]
    /\ th' = [th EXCEPT ![Client] =
                [IdleThread EXCEPT !.pc = "f_enter", !.sink = TheSink, !.ret = <<"idle">>]]
    /\ UNCHANGED <<now, levelOf, lists, sinks, workers, files, fails, trace>>

NextCall ==
    \/ ClientHandleInfo
    \/ ClientFlush
    \/ ClientClose
    \/ SinkStep(Client)
    \/ FlushStep(Client)
    \/ CloseStep(Client)
    \/ \E w \in DOMAIN workers : WorkerStep(w)

CallSpec == InitSink /\ [][NextCall]_vars

----------------------------------------------------------------------------
\* RotSpec and MemSpec: a rotating logger shared by threads

\* make_handler(filename, capacity, ...): with capacity > 1 a _MemoryHandler
\* over the FileHandler that make_handler(filename, capacity=1) gives for the
\* same path, else that FileHandler
make_handler(p, capacity) ==
    IF capacity > 1
    THEN <<FileSink(p), MemSink(p, Len(sinks) + 1, Len(lists) + 1, now)>>
    ELSE <<FileSink(p)>>

\* the constructors at time t: SimpleLogger.__init__ adds a FileHandler
\* (sink 1); TimedRotatingLogger.__init__ replaces the handler list, and its
\* rotate_handler() attaches the handler made from the keyword arguments it
\* was given (sink 2)
CtorSinks(t) == <<FileSink(strftime(t))>> \o make_handler(strftime(t), 1)

\* the logger after construction; capacity is the capacity in _handlerParams:
\* absent (1) in a TimedRotatingLogger, set by TimedRotatingMemoryLogger.__init__
\* after the base constructor has returned
CtorLogger(t, capacity) ==
    [suffix |-> strftime(t), suffix0 |-> strftime(t), capacity |-> capacity,
     handlers |-> <<2>>, rlock |-> 0, noSink |-> FALSE,
     rotations |-> [p \in Paths |-> 0], flushes |-> 0]

InitLogger(capacity) ==
    /\ now = 0
    /\ levelOf = <<>>
    /\ lists = <<>>
    /\ sinks = CtorSinks(now)
    /\ workers = <<>>
    /\ files = [p \in Paths |-> <<>>]
    /\ th = [t \in Threads |-> IdleThread]
    /\ fails = 0
    /\ logger = CtorLogger(now, capacity)
    /\ trace = <<>>

\* what became of record r
Outcome(r, o, s) ==
    [trace EXCEPT ![r].out = o, ![r].sink = s, ![r].at = strftime(now),
                  ![r].closed = (s # 0 /\ sinks[s].closed)]

\* a thread calls logger.handle(record) (MaxRecords bounds the calls made on
\* the logger, flush() included), which starts with the comparison
\* if self._suffix != time.strftime(self._suffixFmt); the level of a record
\* plays no part when the handlers are FileHandlers
LogHandle(t) ==
    /\ th[t].pc = "idle"
    /\ Len(levelOf) + logger.flushes < MaxRecords
    /\ \E lv \in (IF logger.capacity > 1 THEN Levels ELSE {INFO}) :
         /\ levelOf' = Append(levelOf, lv)
         /\ trace' = Append(trace, [start |-> strftime(now), out |-> "pending", sink |-> 0,
                                    at |-> 0, noSink |-> logger.noSink,
                                    closed |-> FALSE])
         /\ th' = [th EXCEPT ![t] =
                     IF logger.suffix # strftime(now)
                     THEN [IdleThread EXCEPT !.pc = "h_lock", !.rec = Len(levelOf) + 1,
                                             !.slow = TRUE]
                     ELSE [IdleThread EXCEPT !.pc = "h_dispatch", !.rec = Len(levelOf) + 1]]
    /\ UNCHANGED <<now, lists, sinks, workers, files, fails, logger>>

\* a second comparison that finds the suffix stale whatever it is
AlwaysStale == TRUE

\* the second comparison, made with the rotation lock held
StillStale == logger.suffix # strftime(now)

\* handle: with self._rLock: if self._suffix != time.strftime(self._suffixFmt)
HandleLock(t) ==
    /\ th[t].pc = "h_lock"
    /\ logger.rlock = 0
    /\ IF StillStale
       THEN /\ logger' = [logger EXCEPT !.rlock = t]
            /\ th' = [th EXCEPT ![t].pc = "h_set"]
       ELSE /\ th' = [th EXCEPT ![t].pc = "h_dispatch"]
            /\ UNCHANGED logger
    /\ UNCHANGED <<now, levelOf, lists, sinks, workers, files, fails, trace>>

\* handle: self._suffix = time.strftime(self._suffixFmt)
HandleSet(t) ==
    /\ th[t].pc = "h_set"
    /\ logger' = [logger EXCEPT !.suffix = strftime(now)]
    /\ th' = [th EXCEPT ![t].pc = "r_enter"]
    /\ UNCHANGED <<now, levelOf, lists, sinks, workers, files, fails, trace>>

\* rotate_handler: with self._rLock: for h in self.handlers: h.close()
RotateEnter(t) ==
    /\ th[t].pc = "r_enter"
    /\ logger' = [logger EXCEPT !.rotations[logger.suffix] = @ + 1]
    /\ th' = [th EXCEPT ![t] =
                IF logger.handlers = <<>>
                THEN [th[t] EXCEPT !.pc = "r_clear"]
                ELSE [th[t] EXCEPT !.pc = "c_enter", !.sink = logger.handlers[1],
                                   !.ret = <<"r_clear">> \o th[t].ret]]
    /\ UNCHANGED <<now, levelOf, lists, sinks, workers, files, fails, trace>>

\* the handler list left as it is
KeptHandlers == logger.handlers

\* the handler list after  self.handlers = list()
ClearedHandlers == <<>>

\* rotate_handler: self.handlers = list()
RotateClear(t) ==
    /\ th[t].pc = "r_clear"
    /\ logger' = [logger EXCEPT !.handlers = ClearedHandlers]
    /\ th' = [th EXCEPT ![t].pc = "r_make", ![t].sink = 0]
    /\ UNCHANGED <<now, levelOf, lists, sinks, workers, files, fails, trace>>

\* rotate_handler: handler = make_handler(self._baseFilename + '.' + self._suffix, ...)
\* and self.addHandler(handler); when make_handler raises, the exception leaves
\* both with blocks and handle()
RotateMake(t) ==
    /\ th[t].pc = "r_make"
    /\ \/ /\ LET made == make_handler(logger.suffix, logger.capacity) IN
             /\ sinks' = sinks \o made
             /\ lists' = IF Len(made) > 1 THEN Append(lists, <<>>) ELSE lists
             /\ logger' = [logger EXCEPT !.handlers = Append(@, Len(sinks) + Len(made)),
                                         !.noSink = FALSE]
          /\ th' = [th EXCEPT ![t].pc = "h_unlock"]
          /\ UNCHANGED <<fails, trace>>
       \/ /\ fails < MaxFails
          /\ fails' = fails + 1
          /\ logger' = [logger EXCEPT !.rlock = 0, !.noSink = TRUE]
          /\ trace' = Outcome(th[t].rec, "raised", 0)
          /\ th' = [th EXCEPT ![t].pc = "idle"]
          /\ UNCHANGED <<sinks, lists>>
    /\ UNCHANGED <<now, levelOf, workers, files>>

\* handle: the with block ends
HandleUnlock(t) ==
    /\ th[t].pc = "h_unlock"
    /\ logger' = [logger EXCEPT !.rlock = 0]
    /\ th' = [th EXCEPT ![t].pc = "h_dispatch"]
    /\ UNCHANGED <<now, levelOf, lists, sinks, workers, files, fails, trace>>

\* handle: LoggerClass.handle(self, record): callHandlers passes the record to
\* the handlers of the list, and to nobody when the list is empty
HandleDispatch(t) ==
    /\ th[t].pc = "h_dispatch"
    /\ IF logger.handlers = <<>>
       THEN /\ trace' = Outcome(th[t].rec, "dropped", 0)
            /\ th' = [th EXCEPT ![t].pc = "idle"]
       ELSE /\ trace' = Outcome(th[t].rec, "sent", logger.handlers[1])
            /\ th' = [th EXCEPT ![t].pc = "s_acq", ![t].sink = logger.handlers[1],
                                ![t].ret = <<"idle">>]
    /\ UNCHANGED <<now, levelOf, lists, sinks, workers, files, fails, logger>>

LoggerStep(t) ==
    \/ LogHandle(t)
    \/ HandleLock(t)
    \/ HandleSet(t)
    \/ RotateEnter(t)
    \/ RotateClear(t)
    \/ RotateMake(t)
    \/ HandleUnlock(t)
    \/ HandleDispatch(t)

\* a thread calls logger.flush() of a TimedRotatingMemoryLogger
LogFlush(t) ==
    /\ th[t].pc = "idle"
    /\ logger.flushes < MaxFlushes
    /\ Len(levelOf) + logger.flushes < MaxRecords
    /\ logger' = [logger EXCEPT !.flushes = @ + 1]
    /\ th' = [th EXCEPT ![t] = [IdleThread EXCEPT !.pc = "lf_lock"]]
    /\ UNCHANGED <<now, levelOf, lists, sinks, workers, files, fails, trace>>

\* flush: with self._rLock: for h in self.handlers: h.flush()
FlushLock(t) ==
    /\ th[t].pc = "lf_lock"
    /\ logger.rlock = 0
    /\ logger' = [logger EXCEPT !.rlock = t]
    /\ th' = [th EXCEPT ![t] =
                IF logger.handlers = <<>>
                THEN [th[t] EXCEPT !.pc = "lf_unlock"]
                ELSE [th[t] EXCEPT !.pc = "f_enter", !.sink = logger.handlers[1],
                                   !.ret = <<"lf_unlock">>]]
    /\ UNCHANGED <<now, levelOf, lists, sinks, workers, files, fails, trace>>

\* flush: the with block ends and flush() returns
FlushUnlock(t) ==
    /\ th[t].pc = "lf_unlock"
    /\ logger' = [logger EXCEPT !.rlock = 0]
    /\ th' = [th EXCEPT ![t].pc = "idle", ![t].sink = 0]
    /\ UNCHANGED <<now, levelOf, lists, sinks, workers, files, fails, trace>>

LoggerFlushStep(t) ==
    \/ LogFlush(t)
    \/ FlushLock(t)
    \/ FlushUnlock(t)

\* RotSpec: TimedRotatingLogger; every handler is a FileHandler, whose
\* handle and close are the first steps of SinkAcquire and CloseEnter
InitRot == InitLogger(1)

NextRot ==
    \/ \E t \in Threads : LoggerStep(t)
    \/ \E t \in Threads : SinkAcquire(t)
    \/ \E t \in Threads : CloseEnter(t)
    \/ Tick

RotSpec == InitRot /\ [][NextRot]_vars

\* MemSpec: TimedRotatingMemoryLogger
InitMem == InitLogger(Capacity)

NextMem ==
    \/ \E t \in Threads : LoggerStep(t)
    \/ \E t \in Threads : LoggerFlushStep(t)
    \/ \E t \in Threads : SinkStep(t)
    \/ \E t \in Threads : FlushStep(t)
    \/ \E t \in Threads : CloseStep(t)
    \/ \E w \in DOMAIN workers : WorkerStep(w)
    \/ Tick

MemSpec == InitMem /\ [][NextMem]_vars

----------------------------------------------------------------------------
\* Properties of the stand-alone _MemoryHandler (SinkSpec)

InFile(r, p) == \E i \in DOMAIN files[p] : files[p][i] = r

\* the worker started by the flush the thread is waiting in
Started(t) == workers[sinks[th[t].sink].flusher]

\* the client is inside the flush() called by handle's emit
InEmitFlush(k) == th[Client].pc = k /\ Head(th[Client].ret) = "s_rel"

\* C1: when close() has returned, every record handled before it has been
\* written to the target (stated for the runs in which every worker thread
\* could be started)
C1_CloseWritesAll ==
    (th[Client].pc = "closed" /\ fails = 0) =>
        \A r \in 1..Len(levelOf) : InFile(r, sinks[1].path)

\* C2: the target receives the records in the order handle() was called
C2_TargetInHandleOrder ==
    \A i, j \in DOMAIN files[0] : i < j => files[0][i] < files[0][j]

\* C8: a record at or above flushLevel makes its own handle() call flush; the
\* swap captures the earlier buffered records followed by that record, leaves
\* the buffer empty, and that batch is the one given to the worker
C8_SeverityFlush ==
    LET c == th[Client] IN
    /\ (c.pc = "s_rel" /\ levelOf[c.rec] >= FlushLevel) => c.flushed
    /\ (InEmitFlush("f_start") /\ levelOf[c.rec] >= FlushLevel) =>
           /\ lists[c.buffered] = Append(c.pre, c.rec)
           /\ lists[sinks[TheSink].buffer] = <<>>
    /\ (InEmitFlush("f_waiting") /\ levelOf[c.rec] >= FlushLevel) =>
           /\ Started(Client).batch = c.buffered
           /\ Started(Client).target = sinks[TheSink].target
           /\ lists[c.buffered] = Append(c.pre, c.rec)

\* C8 witness: the severity trigger alone (buffer below capacity, not stale)
\* has handed a batch to a worker
C8_Witness ==
    LET c == th[Client] IN
    /\ InEmitFlush("f_waiting")
    /\ levelOf[c.rec] >= FlushLevel
    /\ Len(c.pre) + 1 < Capacity
    /\ now - sinks[TheSink].last <= FlushInterval
    /\ Len(lists[c.buffered]) = Len(c.pre) + 1

\* C9: when handle() returns without having triggered a flush the buffer is
\* below capacity
C9_BufferBelowCapacity ==
    (th[Client].pc \in {"s_rel", "idle"} /\ ~th[Client].flushed) =>
        Len(lists[sinks[TheSink].buffer]) < Capacity

\* C9 witness: the capacity trigger alone has fired for a record below flushLevel
C9_Witness ==
    LET c == th[Client] IN
    /\ InEmitFlush("f_enter")
    /\ levelOf[c.rec] < FlushLevel
    /\ now - sinks[TheSink].last <= FlushInterval
    /\ Len(lists[sinks[TheSink].buffer]) = Capacity

\* a worker ends its loop in this step, every record of its batch written
WorkerFinishes(w) ==
    /\ workers[w].pc = "write" /\ workers'[w].pc = "done"
    /\ \A i \in DOMAIN lists[workers[w].batch] :
          InFile(lists[workers[w].batch][i], sinks[workers[w].target].path)

\* a handle() call that evaluates shouldFlush more than flushInterval after
\* lastFlushTime goes on to flush
StaleCallFlushes ==
    (th[Client].pc = "s_should" /\ th'[Client] # th[Client]
        /\ now - sinks[TheSink].last > FlushInterval)
    => (th'[Client].pc = "f_enter" /\ th'[Client].flushed)

\* lastFlushTime changes only when a worker has written its batch, and then
\* to the time of that moment
LastFlushTimeByWorker ==
    (sinks'[TheSink].last # sinks[TheSink].last)
    => (sinks'[TheSink].last = now
        /\ \E w \in DOMAIN workers : workers[w].sink = TheSink /\ WorkerFinishes(w))

\* C10: lastFlushTime starts as the construction time and is advanced by a
\* worker after it has written its batch; a handle() call made more than
\* flushInterval after lastFlushTime triggers a flush, whatever the record's
\* level and the buffer size
C10_StalenessFlush ==
    /\ sinks[TheSink].last = now
    /\ [][StaleCallFlushes /\ LastFlushTimeByWorker]_vars

\* C10 witness: the staleness trigger alone has fired
C10_Witness ==
    LET c == th[Client] IN
    /\ InEmitFlush("f_enter")
    /\ levelOf[c.rec] < FlushLevel
    /\ Len(lists[sinks[TheSink].buffer]) < Capacity
    /\ now - sinks[TheSink].last > FlushInterval

\* the batches that held records when their worker was created
NonEmptyBatches == {w \in DOMAIN workers : lists[workers[w].batch] # <<>>}

\* C11: N records below flushLevel, then close(): once close() has returned and
\* the workers have ended, the target holds records 1..N in that order, and
\* they were handed over in ceil(N / Capacity) non-empty batches (stated for
\* the runs without a failure of Thread.start or target.handle)
C11_RoundTrip ==
    (/\ th[Client].pc = "closed" /\ fails = 0
     /\ \A w \in DOMAIN workers : ~Alive(w))
    => /\ files[sinks[1].path] = [i \in 1..Len(levelOf) |-> i]
       /\ Cardinality(NonEmptyBatches) = (Len(levelOf) + Capacity - 1) \div Capacity

\* C13: when target.handle fails for a record of a batch, the worker has still
\* attempted every later record of that batch: a worker that ended on a failed
\* call leaves no record of its batch behind the failed one
C13_BatchNotAborted ==
    \A w \in DOMAIN workers :
        (workers[w].pc = "dead" /\ workers[w].target # 0) =>
            workers[w].idx >= Len(lists[workers[w].batch])

\* the client is inside flush() / inside a handle() call
InFlush == th[Client].pc \in {"f_enter", "f_start", "f_waiting"}

InHandle == th[Client].pc # "idle" /\ th[Client].ret # <<>>
                /\ th[Client].ret[Len(th[Client].ret)] = "idle"

\* C16: every flush() call returns, and every handle() call returns, whether
\* or not the worker ever writes to the target: the client is again and again
\* outside flush() and outside handle()
C16_FlushReturns ==
    /\ []<>~InFlush
    /\ []<>~InHandle

\* C16 witness: flush(), called by handle(), has returned while the worker it
\* started has written nothing of its batch yet
C16_Witness ==
    /\ th[Client].pc = "s_rel" /\ th[Client].flushed
    /\ LET f == sinks[TheSink].flusher IN
         /\ f # 0 /\ workers[f].pc = "write" /\ workers[f].idx = 1
         /\ lists[workers[f].batch] # <<>>

\* the workers that run or ran
StartedWorkers == {w \in DOMAIN workers : workers[w].pc # "unstarted"}

Elems(q) == {q[i] : i \in DOMAIN q}

\* C19: a record is written to the target at most once; a record in the
\* buffer is neither written nor in the batch of a worker that runs; no
\* record is in the batches of two workers that run
C19_AtMostOnce ==
    /\ \A p \in Paths : \A i, j \in DOMAIN files[p] :
          files[p][i] = files[p][j] => i = j
    /\ \A r \in Elems(lists[sinks[TheSink].buffer]) :
          /\ ~InFile(r, sinks[1].path)
          /\ \A w \in StartedWorkers : r \notin Elems(lists[workers[w].batch])
    /\ \A w1, w2 \in StartedWorkers :
          w1 # w2 => Elems(lists[workers[w1].batch]) \cap Elems(lists[workers[w2].batch]) = {}

\* C19 witness: a batch restored after a failed start was handed to a later
\* worker, which has written it
C19_Witness ==
    \E w1, w2 \in DOMAIN workers :
        /\ workers[w1].pc = "unstarted" /\ workers[w2].pc = "done"
        /\ workers[w1].batch = workers[w2].batch
        /\ lists[workers[w2].batch] # <<>>
        /\ \A r \in Elems(lists[workers[w2].batch]) : InFile(r, sinks[1].path)

----------------------------------------------------------------------------
\* Properties of the rotating loggers (RotSpec, MemSpec)

\* thread t took the locked path of handle() and is about to dispatch
PassedLock(t) == th[t].pc = "h_dispatch" /\ th[t].slow

\* C3: a suffix is rotated to at most once, and once the rotation lock is free
\* again the cached suffix, if it is not the constructor's, has been rotated to
\* exactly once
C3_RotateOnce ==
    /\ \A p \in Paths : logger.rotations[p] <= 1
    /\ (logger.rlock = 0 /\ logger.suffix # logger.suffix0) =>
           logger.rotations[logger.suffix] = 1

\* C3 witness: two threads saw the stale suffix for the same boundary, both are
\* past the locked section and one rotation was made
C3_Witness ==
    /\ PassedLock(1) /\ PassedLock(2)
    /\ trace[th[1].rec].start = logger.suffix
    /\ trace[th[2].rec].start = logger.suffix
    /\ logger.rotations[logger.suffix] = 1

\* C4: a record whose handle() began and dispatched within one suffix period is
\* passed to the handler of that period's path (stated for the runs in which
\* make_handler never failed)
C4_SentToCurrentPath ==
    \A r \in DOMAIN trace :
        (trace[r].out \in {"sent", "dropped"} /\ trace[r].at = trace[r].start /\ fails = 0) =>
            /\ trace[r].out = "sent"
            /\ sinks[trace[r].sink].path = trace[r].start
            /\ ~trace[r].closed

\* every thread is back from its call and no worker is running
Quiescent == (\A t \in Threads : th[t].pc = "idle") /\ (\A w \in DOMAIN workers : ~Alive(w))

\* record r waits in the buffer of a handler of path p that is not closed
Held(r, p) ==
    \E s \in DOMAIN sinks :
        /\ sinks[s].kind = "mem" /\ sinks[s].path = p /\ ~sinks[s].closed
        /\ \E i \in DOMAIN lists[sinks[s].buffer] : lists[sinks[s].buffer][i] = r

\* C5: a record whose handle() began before the first suffix boundary ends up
\* in the file of the old path (or still waits in an open handler of that
\* path): it is not lost, not written to a later file and not left in a closed
\* handler (stated for the runs without a failure of make_handler or
\* Thread.start)
C5_OldRecordsInOldSink ==
    (Quiescent /\ fails = 0) =>
        \A r \in DOMAIN trace :
            trace[r].start = logger.suffix0 =>
                InFile(r, trace[r].start) \/ Held(r, trace[r].start)

\* list l is out of reach of every later flush: it is not the buffer of a
\* handler, not the batch a flush() has just swapped out, and not the batch of
\* a worker that was started
Unreachable(l) ==
    /\ \A s \in DOMAIN sinks : sinks[s].buffer # l
    /\ \A t \in Threads : ~(th[t].pc = "f_start" /\ th[t].buffered = l)
    /\ \A w \in DOMAIN workers : workers[w].batch = l => workers[w].pc = "unstarted"

\* C12: a failed Thread.start loses no record: after the restore every record
\* appended so far, those appended between the swap and the restore included,
\* is in a list that is still a buffer or the batch of a started worker
C12_RestoreKeepsRecords ==
    \A l \in DOMAIN lists : Unreachable(l) => lists[l] = <<>>

\* the one attached handler is bound to the cached suffix and open
AttachedOpen ==
    /\ Len(logger.handlers) = 1
    /\ LET h == sinks[logger.handlers[1]] IN
       /\ h.path = logger.suffix
       /\ h.open /\ ~h.closed
       /\ h.kind = "mem" => (h.target # 0 /\ sinks[h.target].open)

\* C6: when rotate_handler() has returned, in the constructor or in handle(),
\* exactly one handler is attached, bound to the cached suffix and open
C6_OneSinkAfterRotate ==
    /\ (logger.suffix = logger.suffix0 /\ \A p \in Paths : logger.rotations[p] = 0)
           => AttachedOpen
    /\ (\E t \in Threads : th[t].pc = "h_unlock") => AttachedOpen

\* C6 witness: a rotation made by handle() has just returned
C6_Witness ==
    /\ \E t \in Threads : th[t].pc = "h_unlock"
    /\ logger.suffix # logger.suffix0
    /\ logger.rotations[logger.suffix] = 1
    /\ Len(sinks) > 2

\* C7: a handle() call that begins when make_handler has failed and has left
\* the logger without a handler does not drop its record without an error
C7_NoSilentDrop ==
    \A r \in DOMAIN trace : ~(trace[r].out = "dropped" /\ trace[r].noSink)

\* C15: the swap of flush() is indivisible with respect to handle(): no record
\* is appended to a batch after its worker has finished iterating it, so a
\* worker that has ended its loop has written every record of its batch
C15_SwapIndivisible ==
    \A w \in DOMAIN workers :
        (workers[w].pc = "done" /\ workers[w].target # 0) =>
            \A i \in DOMAIN lists[workers[w].batch] :
                InFile(lists[workers[w].batch][i], sinks[workers[w].target].path)

\* C14: the handler attached to a TimedRotatingMemoryLogger is a buffered
\* _MemoryHandler in every suffix period, the constructor's included
C14_AlwaysBuffered ==
    \A i \in DOMAIN logger.handlers : sinks[logger.handlers[i]].kind = "mem"

\* C17: a handler of a TimedRotatingLogger that is no longer in the handler
\* list has been closed
C17_DroppedSinksClosed ==
    \A s \in DOMAIN sinks :
        (\A i \in DOMAIN logger.handlers : logger.handlers[i] # s) => sinks[s].closed

\* C20: while no thread holds the rotation lock the attached handler, if any,
\* is bound to the cached suffix; and a thread that read the cached suffix
\* without the lock, found it current and is about to read the handler list
\* finds there the open handler of that suffix
C20_SuffixSinkConsistent ==
    /\ (logger.rlock = 0 /\ logger.handlers # <<>>) =>
           sinks[logger.handlers[1]].path = logger.suffix
    /\ \A t \in Threads :
          (/\ th[t].pc = "h_dispatch" /\ ~th[t].slow /\ fails = 0
           /\ trace[th[t].rec].start = logger.suffix)
          => AttachedOpen

\* thread t is inside a call and can take its next step
Runs(t) ==
    /\ th[t].pc # "idle"
    /\ ENABLED (LoggerStep(t) \/ LoggerFlushStep(t) \/ SinkStep(t) \/ FlushStep(t) \/ CloseStep(t))

\* C18: whenever a thread is inside handle() or flush(), some thread inside a
\* call or some worker can take a step: the rotation lock, the handler locks
\* and the flush conditions never block all of them
C18_NoDeadlock ==
    (\E t \in Threads : th[t].pc # "idle") =>
        \/ \E t \in Threads : Runs(t)
        \/ \E w \in DOMAIN workers : ENABLED WorkerStep(w)

\* C18 witness: the three locks are in play at once: a rotating thread holds
\* the rotation lock and waits in close() for the handler lock, whose holder
\* is inside the flush() started by its handle()
C18_Witness ==
    \E t1, t2 \in Threads :
        /\ th[t1].pc = "c_target" /\ logger.rlock = t1
        /\ sinks[th[t1].sink].hlock = t2
        /\ th[t2].pc \in {"f_enter", "f_start", "f_waiting"}
        /\ th[t2].sink = th[t1].sink

====
